---- MODULE Spec2Model ----
(***************************************************************************)
(* A model of the task store of voice-todo-agent/todo_agent.py: the       *)
(* in-memory task list and id counter of TodoAssistant, the tasks.json    *)
(* file it is loaded from and saved to, and the eight tool operations.    *)
(***************************************************************************)
EXTENDS Integers, Sequences, FiniteSets, TLC

VARIABLES
    tasks,            \* self.tasks: the list of task dicts, in insertion order
    task_id_counter,  \* self.task_id_counter
    file,             \* the content of tasks.json
    call,             \* the operation that ran last, with its arguments
    result,           \* what that operation returned to its caller
    wrote,            \* what became of the write of that operation
    assigned,         \* ids given out by add_task on this instance, in order
    everAssigned,     \* ids given out by add_task on any instance so far
    failures,         \* writes that have failed so far
    running           \* the tool calls in flight: where each coroutine stands

vars == <<tasks, task_id_counter, file, call, result, wrote, assigned,
          everAssigned, failures, running>>

(***************************************************************************)
(* Bounds of the model.                                                    *)
(***************************************************************************)
\* add_task is not called once the counter has passed MaxId
MaxId == 2
\* at most this many writes fail in one behaviour
MaxWriteFailures == 1

(***************************************************************************)
(* Python values.  An Optional[str] is None or a str.                      *)
(***************************************************************************)
None == [py |-> "None"]

Str(s) == [py |-> "str", s |-> s]

\* the truth value of an Optional[str]: None and "" are falsy
Truthy(v) == v # None /\ v # Str("")

\* str.lower() on the strings the model passes as priorities and filters
Lower(s) ==
    CASE s = "High" -> "high"
      [] s = "URGENT" -> "urgent"
      [] s = "Pending" -> "pending"
      [] OTHER -> s

(***************************************************************************)
(* Arguments the runtime passes.                                           *)
(***************************************************************************)
Descriptions == {"buy milk"}

PriorityInputs == {"medium", "High"}

DueDateInputs == {None}

FilterInputs == {"all", "Pending", "completed", "today", "high-priority", "overdue"}

\* readings of datetime.now(): the date, the hour and minute, the seconds
Clock == { [date |-> "2025-10-20", hm |-> "09:01", sec |-> 10] }

\* strftime("%Y-%m-%d %H:%M")
StrfMinute(now) == now.date \o " " \o now.hm

\* strftime("%Y-%m-%d")
StrfDate(now) == now.date

TaskIdInputs == 1 .. (MaxId + 1)

(***************************************************************************)
(* json.dump and json.load of the store's state.                           *)
(***************************************************************************)
JNull == [json |-> "null"]

JString(s) == [json |-> "string", s |-> s]

JNumber(n) == [json |-> "number", n |-> n]

DumpOptional(v) == IF v = None THEN JNull ELSE JString(v.s)

LoadOptional(j) == IF j.json = "null" THEN None ELSE Str(j.s)

\* DumpTask, were completed_at left out of what is written
DumpTask_without_completed_at(t) ==
    [ id |-> JNumber(t.id),
      description |-> JString(t.description),
      priority |-> JString(t.priority),
      status |-> JString(t.status),
      created_at |-> JString(t.created_at),
      due_date |-> DumpOptional(t.due_date),
      completed_at |-> JNull ]

DumpTask(t) ==
    [ id |-> JNumber(t.id),
      description |-> JString(t.description),
      priority |-> JString(t.priority),
      status |-> JString(t.status),
      created_at |-> JString(t.created_at),
      due_date |-> DumpOptional(t.due_date),
      completed_at |-> DumpOptional(t.completed_at) ]

LoadTask(j) ==
    [ id |-> j.id.n,
      description |-> j.description.s,
      priority |-> j.priority.s,
      status |-> j.status.s,
      created_at |-> j.created_at.s,
      due_date |-> LoadOptional(j.due_date),
      completed_at |-> LoadOptional(j.completed_at) ]

\* json.dump({"tasks": self.tasks, "next_id": self.task_id_counter}, f)
json_dump(ts, ctr) ==
    [ tasks |-> [i \in 1 .. Len(ts) |-> DumpTask(ts[i])],
      next_id |-> JNumber(ctr) ]

\* The file: missing, unparsable text, the start of a dump that was never
\* finished, a JSON array, or a JSON object with some of the two keys.
Missing == [kind |-> "missing"]

Garbage == [kind |-> "garbage"]

Truncated == [kind |-> "truncated"]

JsonArray == [kind |-> "array"]

JsonObject(data) == [kind |-> "object", data |-> data]

\* save_tasks: open(..., "w") may fail and leave the file as it was; the
\* dump may fail after the open has emptied the file; any exception is
\* caught, so nothing is raised to the caller.
SaveOutcomes == {"ok", "open_failed", "write_failed"}

\* save_tasks, were the tasks and the counter written one after the other,
\* each a document of its own
save_tasks_in_two_parts(ts, ctr, f, outcome) ==
    [ file |-> CASE outcome = "open_failed" -> f
                 [] outcome = "write_failed" -> JsonObject([tasks |-> json_dump(ts, ctr).tasks])
                 [] OTHER -> JsonObject(json_dump(ts, ctr)),
      raised |-> FALSE ]

\* save_tasks, were the exception of a failed write not caught
save_tasks_uncaught(ts, ctr, f, outcome) ==
    [ file |-> CASE outcome = "open_failed" -> f
                 [] outcome = "write_failed" -> Truncated
                 [] OTHER -> JsonObject(json_dump(ts, ctr)),
      raised |-> outcome # "ok" ]

save_tasks(ts, ctr, f, outcome) ==
    [ file |-> CASE outcome = "open_failed" -> f
                 [] outcome = "write_failed" -> Truncated
                 [] OTHER -> JsonObject(json_dump(ts, ctr)),
      raised |-> FALSE ]

\* load_tasks, were next_id not read back
load_tasks_without_next_id(f) ==
    CASE f.kind \in {"missing", "garbage", "truncated", "array"} ->
            [tasks |-> <<>>, counter |-> 1]
      [] OTHER ->
            [ tasks |-> IF "tasks" \in DOMAIN f.data
                        THEN [i \in 1 .. Len(f.data.tasks) |-> LoadTask(f.data.tasks[i])]
                        ELSE <<>>,
              counter |-> 1 ]

\* load_tasks, run by __init__ on tasks = [] and task_id_counter = 1
load_tasks(f) ==
    CASE f.kind = "missing" -> [tasks |-> <<>>, counter |-> 1]
      [] f.kind \in {"garbage", "truncated", "array"} ->
            [tasks |-> <<>>, counter |-> 1]
      [] OTHER ->
            [ tasks |-> IF "tasks" \in DOMAIN f.data
                        THEN [i \in 1 .. Len(f.data.tasks) |-> LoadTask(f.data.tasks[i])]
                        ELSE <<>>,
              counter |-> IF "next_id" \in DOMAIN f.data
                          THEN f.data.next_id.n
                          ELSE 1 ]

(***************************************************************************)
(* Helpers shared by the operations.                                       *)
(***************************************************************************)
\* {"low": ..., "medium": ..., "high": ..., "urgent": ...}.get(p, white)
priority_emoji(p) ==
    CASE p = "low" -> "blue"
      [] p = "medium" -> "yellow"
      [] p = "high" -> "orange"
      [] p = "urgent" -> "red"
      [] OTHER -> "white"

\* sum(1 for t in ts if t["status"] == s)
CountStatus(ts, s) == Cardinality({i \in 1 .. Len(ts) : ts[i].status = s})

\* the index of the first task with this id, 0 if there is none
FirstIndex(ts, task_id) ==
    IF \E i \in 1 .. Len(ts) : ts[i].id = task_id
    THEN CHOOSE i \in 1 .. Len(ts) :
            /\ ts[i].id = task_id
            /\ \A j \in 1 .. (i - 1) : ts[j].id # task_id
    ELSE 0

(***************************************************************************)
(* The operations: each gives the new list and counter, whether it calls   *)
(* save_tasks, and the string it returns.                                  *)
(***************************************************************************)
\* add_task, were the id taken from the length of the list
add_task_id_from_length(ts, ctr, task_description, priority, due_date, now) ==
    LET task == [ id |-> Len(ts) + 1,
                  description |-> task_description,
                  priority |-> Lower(priority),
                  status |-> "pending",
                  created_at |-> StrfMinute(now),
                  due_date |-> due_date,
                  completed_at |-> None ]
    IN  [ tasks |-> Append(ts, task),
          counter |-> ctr + 1,
          save |-> TRUE,
          result |-> [ kind |-> "added",
                       description |-> task_description,
                       emoji |-> priority_emoji(Lower(priority)),
                       due |-> IF Truthy(due_date) THEN due_date ELSE None ] ]

add_task(ts, ctr, task_description, priority, due_date, now) ==
    LET task == [ id |-> ctr,
                  description |-> task_description,
                  priority |-> Lower(priority),
                  status |-> "pending",
                  created_at |-> StrfMinute(now),
                  due_date |-> due_date,
                  completed_at |-> None ]
    IN  [ tasks |-> Append(ts, task),
          counter |-> ctr + 1,
          save |-> TRUE,
          result |-> [ kind |-> "added",
                       description |-> task_description,
                       emoji |-> priority_emoji(Lower(priority)),
                       due |-> IF Truthy(due_date) THEN due_date ELSE None ] ]

\* MatchesFilter, were 'high-priority' to keep the high tasks only
MatchesFilter_high_only(task, filter_lower, now) ==
    CASE filter_lower = "all" -> TRUE
      [] filter_lower = "pending" -> task.status = "pending"
      [] filter_lower = "completed" -> task.status = "completed"
      [] filter_lower = "today" ->
            task.due_date \in {Str("today"), Str(StrfDate(now))}
      [] filter_lower = "high-priority" -> task.priority = "high"
      [] OTHER -> FALSE

\* the if/elif chain of list_tasks: whether the filter keeps the task
MatchesFilter(task, filter_lower, now) ==
    CASE filter_lower = "all" -> TRUE
      [] filter_lower = "pending" -> task.status = "pending"
      [] filter_lower = "completed" -> task.status = "completed"
      [] filter_lower = "today" ->
            task.due_date \in {Str("today"), Str(StrfDate(now))}
      [] filter_lower = "high-priority" ->
            task.priority \in {"high", "urgent"}
      [] OTHER -> FALSE

list_tasks(ts, ctr, filter_by, now) ==
    LET filter_lower == Lower(filter_by)
        Matches(task) == MatchesFilter(task, filter_lower, now)
        filtered_tasks == SelectSeq(ts, Matches)
        Line(task) ==
            [ status_icon |-> IF task.status = "completed" THEN "checked" ELSE "unchecked",
              priority_icon |-> priority_emoji(task.priority),
              description |-> task.description,
              due |-> IF Truthy(task.due_date) THEN task.due_date ELSE None,
              id |-> task.id ]
    IN  [ tasks |-> ts,
          counter |-> ctr,
          save |-> FALSE,
          result |->
            IF ts = <<>>
            THEN [kind |-> "list_empty"]
            ELSE IF filtered_tasks = <<>>
            THEN [kind |-> "no_tasks_found", filter |-> filter_by]
            ELSE [ kind |-> "listing",
                   filter |-> filter_by,
                   lines |-> [i \in 1 .. Len(filtered_tasks) |-> Line(filtered_tasks[i])],
                   total |-> Len(ts),
                   pending |-> CountStatus(ts, "pending"),
                   completed |-> CountStatus(ts, "completed") ] ]

\* complete_task, were a completed task completed again
complete_task_restamps(ts, ctr, task_id, now) ==
    LET i == FirstIndex(ts, task_id)
        done == [ts EXCEPT ![i].status = "completed",
                           ![i].completed_at = Str(StrfMinute(now))]
        remaining == CountStatus(done, "pending")
    IN  IF i = 0
        THEN [ tasks |-> ts, counter |-> ctr, save |-> FALSE,
               result |-> [kind |-> "not_found", task_id |-> task_id, hint |-> TRUE] ]
        ELSE [ tasks |-> done, counter |-> ctr, save |-> TRUE,
               result |-> [ kind |-> "completed",
                            description |-> ts[i].description,
                            remaining |-> remaining,
                            variant |-> IF remaining = 0 THEN "all_completed"
                                        ELSE IF remaining = 1 THEN "one_more"
                                        ELSE "n_remaining" ] ]

\* complete_task, were the pending tasks counted before the task is completed
complete_task_counts_before(ts, ctr, task_id, now) ==
    LET i == FirstIndex(ts, task_id)
        done == [ts EXCEPT ![i].status = "completed",
                           ![i].completed_at = Str(StrfMinute(now))]
        remaining == CountStatus(ts, "pending")
    IN  IF i = 0
        THEN [ tasks |-> ts, counter |-> ctr, save |-> FALSE,
               result |-> [kind |-> "not_found", task_id |-> task_id, hint |-> TRUE] ]
        ELSE IF ts[i].status = "completed"
        THEN [ tasks |-> ts, counter |-> ctr, save |-> FALSE,
               result |-> [kind |-> "already_completed",
                           description |-> ts[i].description] ]
        ELSE [ tasks |-> done, counter |-> ctr, save |-> TRUE,
               result |-> [ kind |-> "completed",
                            description |-> ts[i].description,
                            remaining |-> remaining,
                            variant |-> IF remaining = 0 THEN "all_completed"
                                        ELSE IF remaining = 1 THEN "one_more"
                                        ELSE "n_remaining" ] ]

\* complete_task, were completed_at not set
complete_task_without_timestamp(ts, ctr, task_id, now) ==
    LET i == FirstIndex(ts, task_id)
        done == [ts EXCEPT ![i].status = "completed"]
        remaining == CountStatus(done, "pending")
    IN  IF i = 0
        THEN [ tasks |-> ts, counter |-> ctr, save |-> FALSE,
               result |-> [kind |-> "not_found", task_id |-> task_id, hint |-> TRUE] ]
        ELSE IF ts[i].status = "completed"
        THEN [ tasks |-> ts, counter |-> ctr, save |-> FALSE,
               result |-> [kind |-> "already_completed",
                           description |-> ts[i].description] ]
        ELSE [ tasks |-> done, counter |-> ctr, save |-> TRUE,
               result |-> [ kind |-> "completed",
                            description |-> ts[i].description,
                            remaining |-> remaining,
                            variant |-> IF remaining = 0 THEN "all_completed"
                                        ELSE IF remaining = 1 THEN "one_more"
                                        ELSE "n_remaining" ] ]

complete_task(ts, ctr, task_id, now) ==
    LET i == FirstIndex(ts, task_id)
        done == [ts EXCEPT ![i].status = "completed",
                           ![i].completed_at = Str(StrfMinute(now))]
        remaining == CountStatus(done, "pending")
    IN  IF i = 0
        THEN [ tasks |-> ts, counter |-> ctr, save |-> FALSE,
               result |-> [kind |-> "not_found", task_id |-> task_id, hint |-> TRUE] ]
        ELSE IF ts[i].status = "completed"
        THEN [ tasks |-> ts, counter |-> ctr, save |-> FALSE,
               result |-> [kind |-> "already_completed",
                           description |-> ts[i].description] ]
        ELSE [ tasks |-> done, counter |-> ctr, save |-> TRUE,
               result |-> [ kind |-> "completed",
                            description |-> ts[i].description,
                            remaining |-> remaining,
                            variant |-> IF remaining = 0 THEN "all_completed"
                                        ELSE IF remaining = 1 THEN "one_more"
                                        ELSE "n_remaining" ] ]

\* delete_task, were the last task popped and not the one found
delete_task_pops_last(ts, ctr, task_id) ==
    LET i == FirstIndex(ts, task_id)
    IN  IF i = 0
        THEN [ tasks |-> ts, counter |-> ctr, save |-> FALSE,
               result |-> [kind |-> "not_found", task_id |-> task_id, hint |-> FALSE] ]
        ELSE [ tasks |-> SubSeq(ts, 1, Len(ts) - 1),
               counter |-> ctr,
               save |-> TRUE,
               result |-> [kind |-> "removed", description |-> ts[i].description] ]

\* delete_task, were the list saved whether or not the id was found
delete_task_always_saves(ts, ctr, task_id) ==
    LET i == FirstIndex(ts, task_id)
    IN  IF i = 0
        THEN [ tasks |-> ts, counter |-> ctr, save |-> TRUE,
               result |-> [kind |-> "not_found", task_id |-> task_id, hint |-> FALSE] ]
        ELSE [ tasks |-> SubSeq(ts, 1, i - 1) \o SubSeq(ts, i + 1, Len(ts)),
               counter |-> ctr,
               save |-> TRUE,
               result |-> [kind |-> "removed", description |-> ts[i].description] ]

delete_task(ts, ctr, task_id) ==
    LET i == FirstIndex(ts, task_id)
    IN  IF i = 0
        THEN [ tasks |-> ts, counter |-> ctr, save |-> FALSE,
               result |-> [kind |-> "not_found", task_id |-> task_id, hint |-> FALSE] ]
        ELSE [ tasks |-> SubSeq(ts, 1, i - 1) \o SubSeq(ts, i + 1, Len(ts)),
               counter |-> ctr,
               save |-> TRUE,
               result |-> [kind |-> "removed", description |-> ts[i].description] ]

\* update_task_priority, were the task made pending again
update_task_priority_reopens(ts, ctr, task_id, new_priority) ==
    LET i == FirstIndex(ts, task_id)
    IN  IF i = 0
        THEN [ tasks |-> ts, counter |-> ctr, save |-> FALSE,
               result |-> [kind |-> "not_found", task_id |-> task_id, hint |-> FALSE] ]
        ELSE [ tasks |-> [ts EXCEPT ![i].priority = Lower(new_priority),
                                    ![i].status = "pending",
                                    ![i].completed_at = None],
               counter |-> ctr,
               save |-> TRUE,
               result |-> [ kind |-> "updated",
                            description |-> ts[i].description,
                            old_priority |-> ts[i].priority,
                            new_priority |-> new_priority,
                            emoji |-> priority_emoji(Lower(new_priority)) ] ]

update_task_priority(ts, ctr, task_id, new_priority) ==
    LET i == FirstIndex(ts, task_id)
    IN  IF i = 0
        THEN [ tasks |-> ts, counter |-> ctr, save |-> FALSE,
               result |-> [kind |-> "not_found", task_id |-> task_id, hint |-> FALSE] ]
        ELSE [ tasks |-> [ts EXCEPT ![i].priority = Lower(new_priority)],
               counter |-> ctr,
               save |-> TRUE,
               result |-> [ kind |-> "updated",
                            description |-> ts[i].description,
                            old_priority |-> ts[i].priority,
                            new_priority |-> new_priority,
                            emoji |-> priority_emoji(Lower(new_priority)) ] ]

\* f"{x:.0f}" of x = num / den: the nearest integer, a tie to the even one
RoundHalfEven(num, den) ==
    LET q == num \div den
        r == num % den
    IN  IF 2 * r < den THEN q
        ELSE IF 2 * r > den THEN q + 1
        ELSE IF q % 2 = 0 THEN q ELSE q + 1

\* f'{completion_rate:.0f}' of completed / total * 100: the quotient and the
\* product are binary floating point, so a rate that is exactly halfway
\* between two integers can come out just below or just above it: 23 / 40 *
\* 100 is 57.49999999999999 and 109 / 200 * 100 is 54.50000000000001; every
\* other halfway rate of a store of up to 399 tasks is exact and is rounded
\* to the even neighbour
FormatRate(completed, total) ==
    IF completed * 40 = 23 * total THEN (completed * 100) \div total
    ELSE IF completed * 200 = 109 * total THEN (completed * 100) \div total + 1
    ELSE RoundHalfEven(completed * 100, total)

\* get_daily_summary, were the tier chosen from the rate as it is shown
get_daily_summary_tier_from_progress(ts, ctr) ==
    LET total == Len(ts)
        completed == CountStatus(ts, "completed")
        pending == CountStatus(ts, "pending")
        high_priority ==
            Cardinality({i \in 1 .. Len(ts) :
                            /\ ts[i].priority \in {"high", "urgent"}
                            /\ ts[i].status = "pending"})
        shown == FormatRate(completed, total)
    IN  [ tasks |-> ts,
          counter |-> ctr,
          save |-> FALSE,
          result |->
            IF ts = <<>>
            THEN [kind |-> "summary_empty"]
            ELSE [ kind |-> "summary",
                   total |-> total,
                   completed |-> completed,
                   pending |-> pending,
                   high_priority |-> high_priority,
                   progress |-> FormatRate(completed, total),
                   tier |-> IF shown = 100 THEN 5
                            ELSE IF shown >= 75 THEN 4
                            ELSE IF shown >= 50 THEN 3
                            ELSE IF shown >= 25 THEN 2
                            ELSE 1 ] ]

get_daily_summary(ts, ctr) ==
    LET total == Len(ts)
        completed == CountStatus(ts, "completed")
        pending == CountStatus(ts, "pending")
        high_priority ==
            Cardinality({i \in 1 .. Len(ts) :
                            /\ ts[i].priority \in {"high", "urgent"}
                            /\ ts[i].status = "pending"})
        \* completion_rate is completed / total * 100, compared as a fraction
        AtLeast(percent) == completed * 100 >= percent * total
    IN  [ tasks |-> ts,
          counter |-> ctr,
          save |-> FALSE,
          result |->
            IF ts = <<>>
            THEN [kind |-> "summary_empty"]
            ELSE [ kind |-> "summary",
                   total |-> total,
                   completed |-> completed,
                   pending |-> pending,
                   high_priority |-> high_priority,
                   progress |-> FormatRate(completed, total),
                   tier |-> IF completed = total THEN 5
                            ELSE IF AtLeast(75) THEN 4
                            ELSE IF AtLeast(50) THEN 3
                            ELSE IF AtLeast(25) THEN 2
                            ELSE 1 ] ]

\* the code points of the due-date texts the model uses, and of "9999"
CodePoints(s) ==
    CASE s = "today" -> <<116, 111, 100, 97, 121>>
      [] s = "Oct 1" -> <<79, 99, 116, 32, 49>>
      [] s = "Oct 5" -> <<79, 99, 116, 32, 53>>
      [] s = "9999" -> <<57, 57, 57, 57>>
      [] OTHER -> <<>>

\* a < b for two Python strs: by code point, a proper prefix first
RECURSIVE SeqLess(_, _)
SeqLess(a, b) ==
    IF b = <<>> THEN FALSE
    ELSE IF a = <<>> THEN TRUE
    ELSE IF Head(a) # Head(b) THEN Head(a) < Head(b)
    ELSE SeqLess(Tail(a), Tail(b))

StrLess(a, b) == SeqLess(CodePoints(a), CodePoints(b))

\* priority_order.get(p, 4)
priority_order(p) ==
    CASE p = "urgent" -> 0
      [] p = "high" -> 1
      [] p = "medium" -> 2
      [] p = "low" -> 3
      [] OTHER -> 4

\* the sort key of suggest_next_task, were the due date left out of it
SortKey_rank_only(task) ==
    [ rank |-> priority_order(task.priority), due |-> "9999" ]

\* the sort key of suggest_next_task, and its order on tuples
SortKey(task) ==
    [ rank |-> priority_order(task.priority),
      due |-> IF Truthy(task.due_date) THEN task.due_date.s ELSE "9999" ]

KeyLess(k1, k2) ==
    \/ k1.rank < k2.rank
    \/ k1.rank = k2.rank /\ StrLess(k1.due, k2.due)

\* suggest_next_task, were the pending tasks kept as the list
suggest_next_task_keeps_pending(ts, ctr) ==
    LET IsPending(task) == task.status = "pending"
        pending_tasks == SelectSeq(ts, IsPending)
        n == Len(pending_tasks)
        first == CHOOSE i \in 1 .. n :
                    /\ \A j \in 1 .. n :
                          ~KeyLess(SortKey(pending_tasks[j]), SortKey(pending_tasks[i]))
                    /\ \A j \in 1 .. (i - 1) :
                          KeyLess(SortKey(pending_tasks[i]), SortKey(pending_tasks[j]))
                          \/ KeyLess(SortKey(pending_tasks[j]), SortKey(pending_tasks[i]))
        next_task == pending_tasks[first]
    IN  [ tasks |-> pending_tasks,
          counter |-> ctr,
          save |-> FALSE,
          result |->
            IF pending_tasks = <<>>
            THEN [kind |-> "all_done"]
            ELSE [ kind |-> "suggestion",
                   emoji |-> priority_emoji(next_task.priority),
                   description |-> next_task.description,
                   due |-> IF Truthy(next_task.due_date) THEN next_task.due_date ELSE None,
                   priority |-> next_task.priority,
                   id |-> next_task.id,
                   others |-> IF n > 1 THEN n - 1 ELSE 0 ] ]

suggest_next_task(ts, ctr) ==
    LET IsPending(task) == task.status = "pending"
        pending_tasks == SelectSeq(ts, IsPending)
        n == Len(pending_tasks)
        \* sorted(...)[0]: a least key, the earliest of those with it
        first == CHOOSE i \in 1 .. n :
                    /\ \A j \in 1 .. n :
                          ~KeyLess(SortKey(pending_tasks[j]), SortKey(pending_tasks[i]))
                    /\ \A j \in 1 .. (i - 1) :
                          KeyLess(SortKey(pending_tasks[i]), SortKey(pending_tasks[j]))
                          \/ KeyLess(SortKey(pending_tasks[j]), SortKey(pending_tasks[i]))
        next_task == pending_tasks[first]
    IN  [ tasks |-> ts,
          counter |-> ctr,
          save |-> FALSE,
          result |->
            IF pending_tasks = <<>>
            THEN [kind |-> "all_done"]
            ELSE [ kind |-> "suggestion",
                   emoji |-> priority_emoji(next_task.priority),
                   description |-> next_task.description,
                   due |-> IF Truthy(next_task.due_date) THEN next_task.due_date ELSE None,
                   priority |-> next_task.priority,
                   id |-> next_task.id,
                   others |-> IF n > 1 THEN n - 1 ELSE 0 ] ]

\* clear_completed_tasks, were the kept tasks put back in reverse
clear_completed_tasks_reversed(ts, ctr) ==
    LET IsCompleted(task) == task.status = "completed"
        NotCompleted(task) == task.status # "completed"
        completed == SelectSeq(ts, IsCompleted)
        kept == SelectSeq(ts, NotCompleted)
        count == Len(completed)
    IN  IF completed = <<>>
        THEN [ tasks |-> ts, counter |-> ctr, save |-> FALSE,
               result |-> [kind |-> "nothing_to_clear"] ]
        ELSE [ tasks |-> [i \in 1 .. Len(kept) |-> kept[Len(kept) + 1 - i]],
               counter |-> ctr,
               save |-> TRUE,
               result |-> [kind |-> "cleared", count |-> count, plural |-> count # 1] ]

\* clear_completed_tasks, were save_tasks not called
clear_completed_tasks_unsaved(ts, ctr) ==
    LET IsCompleted(task) == task.status = "completed"
        NotCompleted(task) == task.status # "completed"
        completed == SelectSeq(ts, IsCompleted)
        count == Len(completed)
    IN  IF completed = <<>>
        THEN [ tasks |-> ts, counter |-> ctr, save |-> FALSE,
               result |-> [kind |-> "nothing_to_clear"] ]
        ELSE [ tasks |-> SelectSeq(ts, NotCompleted),
               counter |-> ctr,
               save |-> FALSE,
               result |-> [kind |-> "cleared", count |-> count, plural |-> count # 1] ]

clear_completed_tasks(ts, ctr) ==
    LET IsCompleted(task) == task.status = "completed"
        NotCompleted(task) == task.status # "completed"
        completed == SelectSeq(ts, IsCompleted)
        count == Len(completed)
    IN  IF completed = <<>>
        THEN [ tasks |-> ts, counter |-> ctr, save |-> FALSE,
               result |-> [kind |-> "nothing_to_clear"] ]
        ELSE [ tasks |-> SelectSeq(ts, NotCompleted),
               counter |-> ctr,
               save |-> TRUE,
               result |-> [kind |-> "cleared", count |-> count, plural |-> count # 1] ]

(***************************************************************************)
(* The state machine.                                                      *)
(***************************************************************************)
\* the callers whose tool calls the runtime may have in flight at a time,
\* each call a coroutine on the one event loop of the session
Callers == {"caller 1", "caller 2"}

\* no tool call is in flight
NoneRunning == [c \in Callers |-> [pc |-> "idle"]]

\* the outcomes a write may have in the current state
PossibleOutcomes ==
    IF failures < MaxWriteFailures THEN SaveOutcomes ELSE {"ok"}

\* the runtime invokes the tool named in call c with c's arguments
Apply(c, ts, ctr) ==
    CASE c.op = "add_task" ->
            add_task(ts, ctr, c.task_description, c.priority, c.due_date, c.now)
      [] c.op = "list_tasks" -> list_tasks(ts, ctr, c.filter_by, c.now)
      [] c.op = "complete_task" -> complete_task(ts, ctr, c.task_id, c.now)
      [] c.op = "delete_task" -> delete_task(ts, ctr, c.task_id)
      [] c.op = "update_task_priority" ->
            update_task_priority(ts, ctr, c.task_id, c.new_priority)
      [] c.op = "get_daily_summary" -> get_daily_summary(ts, ctr)
      [] c.op = "suggest_next_task" -> suggest_next_task(ts, ctr)
      [] c.op = "clear_completed_tasks" -> clear_completed_tasks(ts, ctr)

\* the ids of the tasks an operation appended
Appended(ts, r) ==
    [i \in 1 .. (Len(r.tasks) - Len(ts)) |-> r.tasks[Len(ts) + i].id]

\* the operation of call' runs to its end: its save, if it makes one, and
\* its return
Invoke ==
    \E r \in {Apply(call', tasks, task_id_counter)} :
       /\ tasks' = r.tasks
       /\ task_id_counter' = r.counter
       /\ IF r.save
          THEN \E o \in PossibleOutcomes :
                  \E s \in {save_tasks(r.tasks, r.counter, file, o)} :
                     /\ file' = s.file
                     /\ wrote' = o
                     /\ failures' = IF o = "ok" THEN failures ELSE failures + 1
                     /\ result' = IF s.raised THEN [kind |-> "raised"] ELSE r.result
          ELSE /\ file' = file
               /\ wrote' = "none"
               /\ failures' = failures
               /\ result' = r.result
       /\ assigned' = assigned \o Appended(tasks, r)
       /\ everAssigned' =
             everAssigned \cup {Appended(tasks, r)[i] : i \in 1 .. Len(Appended(tasks, r))}
       /\ running' = running

AddTask ==
    /\ task_id_counter <= MaxId
    /\ \E d \in Descriptions, p \in PriorityInputs, due \in DueDateInputs, now \in Clock :
          call' = [op |-> "add_task", task_description |-> d, priority |-> p,
                   due_date |-> due, now |-> now]
    /\ Invoke

ListTasks ==
    /\ \E f \in FilterInputs, now \in Clock :
          call' = [op |-> "list_tasks", filter_by |-> f, now |-> now]
    /\ Invoke

CompleteTask ==
    /\ \E id \in TaskIdInputs, now \in Clock :
          call' = [op |-> "complete_task", task_id |-> id, now |-> now]
    /\ Invoke

DeleteTask ==
    /\ \E id \in TaskIdInputs :
          call' = [op |-> "delete_task", task_id |-> id]
    /\ Invoke

UpdateTaskPriority ==
    /\ \E id \in TaskIdInputs, p \in PriorityInputs :
          call' = [op |-> "update_task_priority", task_id |-> id, new_priority |-> p]
    /\ Invoke

GetDailySummary ==
    /\ call' = [op |-> "get_daily_summary"]
    /\ Invoke

SuggestNextTask ==
    /\ call' = [op |-> "suggest_next_task"]
    /\ Invoke

ClearCompletedTasks ==
    /\ call' = [op |-> "clear_completed_tasks"]
    /\ Invoke

\* the process ends and a new TodoAssistant is constructed
Restart ==
    LET l == load_tasks(file)
    IN  /\ tasks' = l.tasks
        /\ task_id_counter' = l.counter
        /\ call' = [op |-> "__init__"]
        /\ result' = [kind |-> "constructed"]
        /\ wrote' = "none"
        /\ assigned' = <<>>
        /\ running' = NoneRunning
        /\ UNCHANGED <<file, everAssigned, failures>>

Constructed(f) ==
    LET l == load_tasks(f)
    IN  /\ file = f
        /\ tasks = l.tasks
        /\ task_id_counter = l.counter
        /\ call = [op |-> "__init__"]
        /\ result = [kind |-> "constructed"]
        /\ wrote = "none"
        /\ assigned = <<>>
        /\ everAssigned = {}
        /\ failures = 0
        /\ running = NoneRunning

Init == Constructed(Missing)

Next ==
    \/ AddTask
    \/ ListTasks
    \/ CompleteTask
    \/ DeleteTask
    \/ UpdateTaskPriority
    \/ GetDailySummary
    \/ SuggestNextTask
    \/ ClearCompletedTasks
    \/ Restart

Spec == Init /\ [][Next]_vars

(***************************************************************************)
(* Construction from a tasks.json the store did not write itself.          *)
(***************************************************************************)
FoundTask ==
    [ id |-> 1, description |-> "buy milk", priority |-> "high",
      status |-> "pending", created_at |-> "2025-10-19 18:30",
      due_date |-> None, completed_at |-> None ]

InitialFiles ==
    { Missing, Garbage, Truncated, JsonArray,
      JsonObject(json_dump(<<FoundTask>>, 2)),
      JsonObject([tasks |-> <<DumpTask(FoundTask)>>]),
      JsonObject([next_id |-> JNumber(2)]) }

InitLoad == \E f \in InitialFiles : Constructed(f)

SpecLoad == InitLoad /\ [][Next]_vars

(***************************************************************************)
(* The queries, on stores loaded from files that earlier instances saved.  *)
(***************************************************************************)
\* the longest list the queries are tried on
QueryMaxTasks == 3

QueryPriorities == {"medium", "high", "urgent", "someday"}

QueryDueDates == {None, Str("today")}

\* a task as add_task makes it, and as complete_task leaves it
QueryTasks ==
    { [ id |-> 0, description |-> "buy milk", priority |-> p,
        status |-> st, created_at |-> "2025-10-19 18:30", due_date |-> d,
        completed_at |-> IF st = "completed" THEN Str("2025-10-19 18:45") ELSE None ] :
      p \in QueryPriorities, st \in {"pending", "completed"}, d \in QueryDueDates }

\* such tasks with the ids 1, 2, ... in the order add_task gave them
WithIds(ts) == [i \in 1 .. Len(ts) |-> [ts[i] EXCEPT !.id = i]]

InitQuery ==
    \E n \in 0 .. QueryMaxTasks :
       \E ts \in [1 .. n -> QueryTasks] :
          Constructed(JsonObject(json_dump(WithIds(ts), n + 1)))

NextQuery ==
    \/ ListTasks
    \/ GetDailySummary
    \/ SuggestNextTask

SpecQuery == InitQuery /\ [][NextQuery]_vars

(***************************************************************************)
(* The suggestion, on stores whose pending tasks differ in rank and in due *)
(* date, loaded from files that earlier instances saved.                   *)
(***************************************************************************)
\* the longest list the suggestion is tried on
SuggestMaxTasks == 4

\* tasks as add_task makes them, and one as complete_task leaves it
SuggestTasks ==
    { [ id |-> 0, description |-> "buy milk", priority |-> x[1],
        status |-> x[3], created_at |-> "2025-10-19 18:30", due_date |-> x[2],
        completed_at |-> IF x[3] = "completed" THEN Str("2025-10-19 18:45") ELSE None ] :
      x \in { <<"low", None, "pending">>,
              <<"urgent", Str("Oct 5"), "pending">>,
              <<"medium", Str("today"), "pending">>,
              <<"urgent", Str("Oct 1"), "pending">>,
              <<"someday", None, "pending">>,
              <<"urgent", Str("Oct 1"), "completed">> } }

InitSuggest ==
    \E n \in 0 .. SuggestMaxTasks :
       \E ts \in [1 .. n -> SuggestTasks] :
          Constructed(JsonObject(json_dump(WithIds(ts), n + 1)))

SpecSuggest == InitSuggest /\ [][NextQuery]_vars

(***************************************************************************)
(* The summary, on stores large enough for the rate to fall between two    *)
(* whole percentages, loaded from files that earlier instances saved.      *)
(***************************************************************************)
\* the longest list the summary is tried on
SummaryMaxTasks == 51

\* a store of total tasks of which the first completed ones are completed;
\* the completed ones have priority high, the pending ones priority p
SummaryStore(total, completed, p) ==
    [ i \in 1 .. total |->
        [ id |-> i, description |-> "buy milk",
          priority |-> IF i <= completed THEN "high" ELSE p,
          status |-> IF i <= completed THEN "completed" ELSE "pending",
          created_at |-> "2025-10-19 18:30", due_date |-> None,
          completed_at |-> IF i <= completed THEN Str("2025-10-19 18:45") ELSE None ] ]

InitSummary ==
    \E total \in 0 .. SummaryMaxTasks :
       \E completed \in 0 .. total :
          \E p \in {"medium", "urgent"} :
             Constructed(JsonObject(json_dump(SummaryStore(total, completed, p),
                                              total + 1)))

SpecSummary == InitSummary /\ [][NextQuery]_vars

(***************************************************************************)
(* The mutations, on stores of several tasks, some of them completed the   *)
(* day before, loaded from files that earlier instances saved.             *)
(***************************************************************************)
\* the longest list the mutations start from
EditMaxTasks == 3

\* tasks as add_task makes them, and one as complete_task leaves it
EditTasks ==
    { [ id |-> 0, description |-> "buy milk", priority |-> x[1],
        status |-> x[3], created_at |-> "2025-10-19 18:30", due_date |-> x[2],
        completed_at |-> IF x[3] = "completed" THEN Str("2025-10-19 18:45") ELSE None ] :
      x \in { <<"medium", None, "pending">>,
              <<"high", Str("today"), "pending">>,
              <<"medium", None, "completed">> } }

\* the earlier instances met every write failure there will be
InitEdit ==
    \E n \in 0 .. EditMaxTasks :
       \E ts \in [1 .. n -> EditTasks] :
          LET f == JsonObject(json_dump(WithIds(ts), n + 1))
              l == load_tasks(f)
          IN  /\ file = f
              /\ tasks = l.tasks
              /\ task_id_counter = l.counter
              /\ call = [op |-> "__init__"]
              /\ result = [kind |-> "constructed"]
              /\ wrote = "none"
              /\ assigned = <<>>
              /\ everAssigned = {}
              /\ failures = MaxWriteFailures
              /\ running = NoneRunning

\* the operations that write, and the restart
NextEdit ==
    \/ AddTask
    \/ CompleteTask
    \/ DeleteTask
    \/ UpdateTaskPriority
    \/ ClearCompletedTasks
    \/ Restart

SpecEdit == InitEdit /\ [][NextEdit]_vars

(***************************************************************************)
(* Properties of the store.                                                *)
(***************************************************************************)
\* the indices of ts whose task has this id
IndicesOf(ts, task_id) == {i \in 1 .. Len(ts) : ts[i].id = task_id}

\* what the memory of the store holds
Memory == [tasks |-> tasks, counter |-> task_id_counter]

FailedWrites == {"open_failed", "write_failed"}

\* C1: on one store instance every add_task assigns an id strictly greater
\* than every id an earlier add_task assigned, whatever was deleted or
\* cleared in between; the task it appends carries that id.
C1_IdsStrictlyIncreasing ==
    /\ \A i, j \in 1 .. Len(assigned) : i < j => assigned[i] < assigned[j]
    /\ call.op = "add_task" =>
          /\ tasks # <<>>
          /\ tasks[Len(tasks)].id = assigned[Len(assigned)]

\* a second add_task has just run on an instance whose first task is gone
C1_Witness ==
    /\ call.op = "add_task"
    /\ Len(assigned) = 2
    /\ Len(tasks) = 1

\* C2 as stated: in every reachable state, restarts after a swallowed write
\* failure included, the counter exceeds every id ever assigned.
C2_CounterAboveEveryIdEver == \A id \in everAssigned : id < task_id_counter

\* C2 amended: the counter exceeds every id this instance has assigned and
\* never decreases while the instance lives; it exceeds every id any
\* instance has assigned, and a restart does not lower it, as long as no
\* write has failed.
C2_CounterAmended ==
    /\ [](\A k \in 1 .. Len(assigned) : assigned[k] < task_id_counter)
    /\ [](failures = 0 => \A id \in everAssigned : id < task_id_counter)
    /\ [][(call'.op # "__init__" \/ failures = 0)
             => task_id_counter' >= task_id_counter]_vars

\* a new instance has loaded a file that an earlier instance saved after
\* assigning ids, one of them to a task that is gone again
C2_Witness ==
    /\ call.op = "__init__"
    /\ failures = 0
    /\ everAssigned = {1, 2}
    /\ Len(tasks) = 1
    /\ task_id_counter = 3

\* C3: from the empty store on, a task is completed exactly when its
\* completed_at is set; add_task appends a pending task without one, and
\* complete_task of a pending task sets both.
C3_StatusIffCompletedAt ==
    /\ \A i \in 1 .. Len(tasks) :
          /\ tasks[i].status \in {"pending", "completed"}
          /\ tasks[i].status = "completed" <=> tasks[i].completed_at # None
    /\ call.op = "add_task" =>
          /\ tasks[Len(tasks)].status = "pending"
          /\ tasks[Len(tasks)].completed_at = None
    /\ (call.op = "complete_task" /\ result.kind = "completed") =>
          \E i \in IndicesOf(tasks, call.task_id) :
             /\ tasks[i].status = "completed"
             /\ tasks[i].completed_at = Str(StrfMinute(call.now))

\* complete_task has just completed one of two tasks
C3_Witness ==
    /\ call.op = "complete_task"
    /\ result.kind = "completed"
    /\ \E i, j \in 1 .. Len(tasks) :
          tasks[i].status = "completed" /\ tasks[j].status = "pending"

\* the results of the mutating operations that took effect
EffectKinds == {"added", "completed", "removed", "updated", "cleared"}

\* C4: a mutating operation that takes effect writes, and a write that does
\* not fail leaves in the file exactly the list and the counter of the
\* memory; while no write has failed, loading the file gives the memory.
C4_DurableEqualsMemory ==
    /\ result.kind \in EffectKinds => wrote # "none"
    /\ wrote = "ok" => file = JsonObject(json_dump(tasks, task_id_counter))
    /\ failures = 0 => load_tasks(file) = Memory

\* clear_completed_tasks has removed a task, kept another and saved
C4_Witness ==
    /\ call.op = "clear_completed_tasks"
    /\ result.kind = "cleared"
    /\ wrote = "ok"
    /\ tasks # <<>>

\* C5: a save that succeeds, followed by the construction of a new
\* instance, gives back the same tasks in the same order and the same
\* counter.
C5_SaveLoadRoundTrip ==
    load_tasks(save_tasks(tasks, task_id_counter, file, "ok").file) = Memory

\* a new instance holds a pending and a completed task it has loaded
C5_Witness ==
    /\ call.op = "__init__"
    /\ \E i, j \in 1 .. Len(tasks) :
          tasks[i].status = "completed" /\ tasks[j].status = "pending"

\* C6: a write either succeeds, and the file holds the new memory, or it
\* fails, and loading the file still gives what it gave before the write.
C6_SaveAtomic ==
    [][/\ wrote' = "ok" =>
             file' = JsonObject(json_dump(tasks', task_id_counter'))
       /\ wrote' \in FailedWrites => load_tasks(file') = load_tasks(file)]_vars

\* C7: when the write of a mutating operation fails, the operation returns
\* what it returns when the write succeeds, and the memory holds the
\* mutation; nothing is raised.
C7_WriteFailureSwallowed ==
    [][wrote' \in FailedWrites =>
          LET r == Apply(call', tasks, task_id_counter)
          IN  /\ result' = r.result
              /\ result'.kind \in EffectKinds
              /\ tasks' = r.tasks
              /\ task_id_counter' = r.counter]_vars

\* the write of an add_task failed after the file was opened
C7_Witness ==
    /\ call.op = "add_task"
    /\ wrote = "write_failed"
    /\ result.kind = "added"
    /\ file = Truncated
    /\ Len(tasks) = 2

\* a file that is missing or is not the object with the two keys
Malformed(f) ==
    \/ f.kind \in {"missing", "garbage", "truncated", "array"}
    \/ f.kind = "object" /\ DOMAIN f.data # {"tasks", "next_id"}

\* C8: construction from a missing or malformed file gives the empty store
\* with the counter at 1.
C8_MalformedLoadsEmpty ==
    (call.op = "__init__" /\ Malformed(file)) =>
        (tasks = <<>> /\ task_id_counter = 1)

\* what the eight operations return
ResultKinds ==
    { "added", "list_empty", "no_tasks_found", "listing", "not_found",
      "already_completed", "completed", "removed", "updated", "summary_empty",
      "summary", "all_done", "suggestion", "nothing_to_clear", "cleared" }

\* C9: no operation raises: each returns one of its strings; complete_task,
\* delete_task and update_task_priority with an id no task has return the
\* not-found message, leave the list and the counter as they were and do
\* not write.
C9_NeverRaises ==
    /\ [](call.op # "__init__" => result.kind \in ResultKinds)
    /\ [][(/\ call'.op \in {"complete_task", "delete_task", "update_task_priority"}
           /\ IndicesOf(tasks, call'.task_id) = {})
             => /\ result'.kind = "not_found"
                /\ result'.task_id = call'.task_id
                /\ tasks' = tasks
                /\ task_id_counter' = task_id_counter
                /\ file' = file
                /\ wrote' = "none"]_vars

\* delete_task was given an id that no task of a non-empty list has
C9_Witness ==
    /\ call.op = "delete_task"
    /\ result.kind = "not_found"
    /\ tasks # <<>>
    /\ IndicesOf(tasks, call.task_id) = {}

\* the place in the list of the task with this id
PositionOf(task_id) == CHOOSE k \in 1 .. Len(tasks) : tasks[k].id = task_id

\* what the filters of the claim select
Selected(task, filter_lower) ==
    \/ filter_lower = "all"
    \/ filter_lower = "pending" /\ task.status = "pending"
    \/ filter_lower = "completed" /\ task.status = "completed"
    \/ filter_lower = "high-priority" /\ task.priority \in {"high", "urgent"}

\* C10: on a non-empty store list_tasks lists exactly the pending tasks
\* for 'pending', the completed ones for 'completed', those of priority
\* high or urgent for 'high-priority' and all for 'all', each once and in
\* insertion order; an unrecognized filter, or one that selects nothing,
\* gives the 'No ... tasks found' message.
C10_FilterCorrect ==
    (call.op = "list_tasks" /\ tasks # <<>> /\ Lower(call.filter_by) # "today") =>
        LET f == Lower(call.filter_by)
            wanted == {k \in 1 .. Len(tasks) : Selected(tasks[k], f)}
        IN  IF wanted = {}
            THEN result = [kind |-> "no_tasks_found", filter |-> call.filter_by]
            ELSE /\ result.kind = "listing"
                 /\ \A k \in 1 .. Len(tasks) :
                       k \in wanted <=>
                          \E i \in 1 .. Len(result.lines) : result.lines[i].id = tasks[k].id
                 /\ \A i \in 1 .. Len(result.lines) :
                       /\ \E k \in wanted : tasks[k].id = result.lines[i].id
                       /\ result.lines[i].description =
                             tasks[PositionOf(result.lines[i].id)].description
                 /\ \A i, j \in 1 .. Len(result.lines) :
                       i < j => PositionOf(result.lines[i].id) < PositionOf(result.lines[j].id)

\* 'high-priority' has listed the first and the third of three tasks
C10_Witness ==
    /\ call.op = "list_tasks"
    /\ call.filter_by = "high-priority"
    /\ Len(tasks) = 3
    /\ tasks[1].priority = "urgent"
    /\ tasks[2].priority = "medium"
    /\ tasks[3].priority = "high"
    /\ result.kind = "listing"
    /\ Len(result.lines) = 2

(***************************************************************************)
(* C11: suggest_next_task returns the pending task that is least under     *)
(* the key (priority rank, due-date text), with the ranks urgent 0, high   *)
(* 1, medium 2, low 3, any other priority 4, and an absent due date         *)
(* compared as the text "9999"; of the tasks with the least key it is the  *)
(* earliest in the list.  So no pending task has a strictly better rank    *)
(* than the suggested one; of the priorities low, urgent, medium, urgent   *)
(* with the due dates none, "Oct 5", "today", "Oct 1" the urgent task due  *)
(* "Oct 1" is suggested; and with no pending task the answer is the "all   *)
(* done" message.                                                          *)
(***************************************************************************)
C11_Rank(task) ==
    IF task.priority = "urgent" THEN 0
    ELSE IF task.priority = "high" THEN 1
    ELSE IF task.priority = "medium" THEN 2
    ELSE IF task.priority = "low" THEN 3
    ELSE 4

C11_Due(task) == IF task.due_date = None THEN "9999" ELSE task.due_date.s

\* task a comes strictly before task b under the key
C11_Before(a, b) ==
    \/ C11_Rank(a) < C11_Rank(b)
    \/ C11_Rank(a) = C11_Rank(b) /\ StrLess(C11_Due(a), C11_Due(b))

C11_Pending == {i \in 1 .. Len(tasks) : tasks[i].status = "pending"}

\* the store of the example: four pending tasks
C11_Example ==
    /\ Len(tasks) = 4
    /\ [i \in 1 .. 4 |-> tasks[i].priority] = <<"low", "urgent", "medium", "urgent">>
    /\ [i \in 1 .. 4 |-> tasks[i].due_date] =
          <<None, Str("Oct 5"), Str("today"), Str("Oct 1")>>
    /\ C11_Pending = 1 .. 4

C11_SuggestsLeast ==
    call.op = "suggest_next_task" =>
       /\ C11_Pending = {} <=> result.kind = "all_done"
       /\ C11_Pending # {} =>
             /\ result.kind = "suggestion"
             /\ \E i \in C11_Pending :
                   /\ result.id = tasks[i].id
                   /\ result.priority = tasks[i].priority
                   /\ result.due = tasks[i].due_date
                   /\ \A j \in C11_Pending :
                         /\ ~C11_Before(tasks[j], tasks[i])
                         /\ C11_Rank(tasks[j]) >= C11_Rank(tasks[i])
                         /\ j < i => C11_Before(tasks[i], tasks[j])
       /\ C11_Example => result.id = 4 /\ result.due = Str("Oct 1")

\* the example's store was asked for a suggestion
C11_Witness ==
    /\ call.op = "suggest_next_task"
    /\ C11_Example
    /\ result.kind = "suggestion"
    /\ result.id = 4

(***************************************************************************)
(* C12: get_daily_summary reports the total, the number completed, the     *)
(* number pending (total less completed), the number of pending tasks of   *)
(* priority high or urgent, and the completion rate completed / total *    *)
(* 100 rounded to the nearest integer; of an empty store it gives the      *)
(* empty-store message.  As stated, the tier is chosen from the rate that  *)
(* is reported (100: tier 5, at least 75: tier 4, at least 50: tier 3, at  *)
(* least 25: tier 2, else tier 1), so that it never disagrees with the     *)
(* percentage shown.                                                       *)
(***************************************************************************)
C12_Completed == Cardinality({i \in 1 .. Len(tasks) : tasks[i].status = "completed"})

C12_HighPending ==
    Cardinality({i \in 1 .. Len(tasks) :
                    /\ tasks[i].status = "pending"
                    /\ tasks[i].priority \in {"high", "urgent"}})

\* n is an integer nearest to 100 * completed / total
C12_Nearest(n) ==
    /\ 2 * (n * Len(tasks) - 100 * C12_Completed) <= Len(tasks)
    /\ 2 * (100 * C12_Completed - n * Len(tasks)) <= Len(tasks)

C12_Counts ==
    /\ tasks = <<>> <=> result.kind = "summary_empty"
    /\ tasks # <<>> =>
          /\ result.kind = "summary"
          /\ result.total = Len(tasks)
          /\ result.completed = C12_Completed
          /\ result.pending = Len(tasks) - C12_Completed
          /\ result.high_priority = C12_HighPending
          /\ C12_Nearest(result.progress)

C12_TierOf(percent) ==
    IF percent = 100 THEN 5
    ELSE IF percent >= 75 THEN 4
    ELSE IF percent >= 50 THEN 3
    ELSE IF percent >= 25 THEN 2
    ELSE 1

C12_TierFromShownRate ==
    call.op = "get_daily_summary" =>
       /\ C12_Counts
       /\ tasks # <<>> => result.tier = C12_TierOf(result.progress)

(***************************************************************************)
(* C12, amended: the counts and the rounded rate are as stated, and the    *)
(* tier is chosen from the rate before it is rounded: tier 5 when every    *)
(* task is completed, tier 4 when at least 75 in 100 are, tier 3 when at   *)
(* least 50 are, tier 2 when at least 25 are, else tier 1.  The tier is    *)
(* the tier of the percentage shown, or the one below it when the rate     *)
(* was rounded up to a threshold.                                          *)
(***************************************************************************)
C12_TierFromExactRate ==
    call.op = "get_daily_summary" =>
       /\ C12_Counts
       /\ tasks # <<>> =>
             /\ result.tier =
                   IF C12_Completed = Len(tasks) THEN 5
                   ELSE IF 100 * C12_Completed >= 75 * Len(tasks) THEN 4
                   ELSE IF 100 * C12_Completed >= 50 * Len(tasks) THEN 3
                   ELSE IF 100 * C12_Completed >= 25 * Len(tasks) THEN 2
                   ELSE 1
             /\ result.tier \in {C12_TierOf(result.progress),
                                  C12_TierOf(result.progress) - 1}
             /\ (Len(tasks) = 4 /\ C12_Completed = 3) =>
                   result.progress = 75 /\ result.tier = 4

\* 38 of 51 tasks are completed: the summary shows 75 and gives tier 3
C12_Witness ==
    /\ call.op = "get_daily_summary"
    /\ Len(tasks) = 51
    /\ C12_Completed = 38
    /\ result.kind = "summary"
    /\ result.progress = 75
    /\ result.tier = 3

(***************************************************************************)
(* C13: clear_completed_tasks removes exactly the completed tasks, keeps   *)
(* the others with their fields and in their order, leaves the counter as  *)
(* it is and reports how many it removed; called again at once it reports *)
(* that there is nothing to clear, removes nothing and writes nothing.     *)
(***************************************************************************)
\* how many of the first i tasks are not completed
C13_Kept(i) == Cardinality({k \in 1 .. i : tasks[k].status # "completed"})

C13_ClearCompleted ==
    [][call'.op = "clear_completed_tasks" =>
         /\ Len(tasks') = C13_Kept(Len(tasks))
         /\ \A i \in 1 .. Len(tasks) :
               tasks[i].status # "completed" => tasks'[C13_Kept(i)] = tasks[i]
         /\ task_id_counter' = task_id_counter
         /\ IF Len(tasks') < Len(tasks)
            THEN /\ result'.kind = "cleared"
                 /\ result'.count = Len(tasks) - Len(tasks')
                 /\ wrote' # "none"
            ELSE /\ result'.kind = "nothing_to_clear"
                 /\ wrote' = "none"
                 /\ file' = file
         /\ call.op = "clear_completed_tasks" =>
               /\ result'.kind = "nothing_to_clear"
               /\ tasks' = tasks
               /\ wrote' = "none"
               /\ file' = file]_vars

\* the second of three tasks was completed and has been cleared
C13_Witness ==
    /\ call.op = "clear_completed_tasks"
    /\ result.kind = "cleared"
    /\ result.count = 1
    /\ Len(tasks) = 2
    /\ tasks[1].id = 1
    /\ tasks[2].id = 3

(***************************************************************************)
(* C14: complete_task on a task that is completed already changes         *)
(* nothing: the task keeps its status and its completed_at, no other task  *)
(* and not the counter changes, nothing is written, and the answer is the  *)
(* "already completed" message, not the one of a completion.               *)
(***************************************************************************)
C14_AlreadyCompletedNoOp ==
    [][(/\ call'.op = "complete_task"
        /\ FirstIndex(tasks, call'.task_id) # 0
        /\ tasks[FirstIndex(tasks, call'.task_id)].status = "completed") =>
         /\ tasks' = tasks
         /\ task_id_counter' = task_id_counter
         /\ file' = file
         /\ wrote' = "none"
         /\ result'.kind = "already_completed"]_vars

\* a task completed the day before was completed again
C14_Witness ==
    /\ call.op = "complete_task"
    /\ result.kind = "already_completed"
    /\ \E i \in 1 .. Len(tasks) :
          /\ tasks[i].id = call.task_id
          /\ tasks[i].completed_at = Str("2025-10-19 18:45")
          /\ tasks[i].completed_at # Str(StrfMinute(call.now))

(***************************************************************************)
(* C15: when complete_task succeeds, the count it reports is the number of *)
(* tasks that are pending once the task is completed, and the message is   *)
(* "all completed" exactly when that is 0, "just 1 more" exactly when it   *)
(* is 1, and "N tasks remaining" exactly when it is more than 1.           *)
(***************************************************************************)
C15_PendingNow == Cardinality({i \in 1 .. Len(tasks) : tasks[i].status = "pending"})

C15_RemainingCount ==
    (call.op = "complete_task" /\ result.kind = "completed") =>
       /\ result.remaining = C15_PendingNow
       /\ result.variant = "all_completed" <=> C15_PendingNow = 0
       /\ result.variant = "one_more" <=> C15_PendingNow = 1
       /\ result.variant = "n_remaining" <=> C15_PendingNow > 1
       /\ result.variant \in {"all_completed", "one_more", "n_remaining"}

\* the first of three pending tasks was completed
C15_Witness ==
    /\ call.op = "complete_task"
    /\ result.kind = "completed"
    /\ result.variant = "n_remaining"
    /\ result.remaining = 2
    /\ Len(tasks) = 3

(***************************************************************************)
(* C16: list_tasks with any filter, get_daily_summary and                  *)
(* suggest_next_task change neither the tasks nor the counter nor the      *)
(* file.                                                                   *)
(***************************************************************************)
C16_QueriesReadOnly ==
    [][call'.op \in {"list_tasks", "get_daily_summary", "suggest_next_task"} =>
         /\ tasks' = tasks
         /\ task_id_counter' = task_id_counter
         /\ file' = file
         /\ wrote' = "none"]_vars

\* a suggestion was made from a store that holds a completed task too
C16_Witness ==
    /\ call.op = "suggest_next_task"
    /\ result.kind = "suggestion"
    /\ \E i \in 1 .. Len(tasks) : tasks[i].status = "completed"
    /\ file = JsonObject(json_dump(tasks, task_id_counter))

(***************************************************************************)
(* C18: whatever a write does, the file is afterwards either unreadable,   *)
(* and the next load starts with no tasks and the counter 1, or it is the  *)
(* whole of what the store held at a save: a load never gives a part of a  *)
(* state, nor a mixture of two.                                            *)
(***************************************************************************)
C18_Unreadable(f) == f.kind \in {"missing", "truncated"}

C18_FileWholeOrUnreadable ==
    [][/\ wrote' \in {"none", "open_failed"} => file' = file
       /\ wrote' = "write_failed" => C18_Unreadable(file')
       /\ wrote' = "ok" => load_tasks(file') = [tasks |-> tasks', counter |-> task_id_counter']
       /\ C18_Unreadable(file') => load_tasks(file') = [tasks |-> <<>>, counter |-> 1]
       /\ call'.op = "__init__" =>
             \/ C18_Unreadable(file) /\ tasks' = <<>> /\ task_id_counter' = 1
             \/ ~C18_Unreadable(file)
                /\ file = JsonObject(json_dump(tasks', task_id_counter'))]_vars

\* a write failed after the file was opened, and the store was restarted
C18_Witness ==
    /\ call.op = "__init__"
    /\ file = Truncated
    /\ tasks = <<>>
    /\ task_id_counter = 1
    /\ everAssigned # {}

(***************************************************************************)
(* C19: completed_at is set once.  Once a task is completed, no operation  *)
(* makes it pending again or changes its completed_at: after every         *)
(* operation a task with that id that is still in the store is completed,  *)
(* with the same completed_at, and it is gone only when delete_task or     *)
(* clear_completed_tasks removed it.  The same holds of a restart that     *)
(* finds the file the store last wrote.                                    *)
(***************************************************************************)
C19_CompletedStays ==
    [][(call'.op # "__init__" \/ file = JsonObject(json_dump(tasks, task_id_counter))) =>
         \A i \in 1 .. Len(tasks) :
            tasks[i].status = "completed" =>
               /\ tasks[i].completed_at # None
               /\ \A j \in 1 .. Len(tasks') :
                     tasks'[j].id = tasks[i].id =>
                        /\ tasks'[j].status = "completed"
                        /\ tasks'[j].completed_at = tasks[i].completed_at
               /\ (\A j \in 1 .. Len(tasks') : tasks'[j].id # tasks[i].id) =>
                     call'.op \in {"delete_task", "clear_completed_tasks"}]_vars

\* the priority of a task completed the day before was changed
C19_Witness ==
    /\ call.op = "update_task_priority"
    /\ result.kind = "updated"
    /\ \E i \in 1 .. Len(tasks) :
          /\ tasks[i].id = call.task_id
          /\ tasks[i].priority # result.old_priority
          /\ tasks[i].status = "completed"
          /\ tasks[i].completed_at = Str("2025-10-19 18:45")

(***************************************************************************)
(* C20: delete_task with an id that is in the store removes that one task  *)
(* and leaves the others as they are and in their order, and the counter   *)
(* as it is; complete_task changes nothing but the status and the          *)
(* completed_at of the task it names, and update_task_priority nothing     *)
(* but that task's priority: no id, description, created_at or due_date    *)
(* changes, and the order stays.                                           *)
(***************************************************************************)
C20_Target == FirstIndex(tasks, call'.task_id)

C20_OnlyTheTarget ==
    [][/\ (call'.op = "delete_task" /\ C20_Target # 0) =>
             /\ Len(tasks') = Len(tasks) - 1
             /\ \A j \in 1 .. Len(tasks') :
                   tasks'[j] = IF j < C20_Target THEN tasks[j] ELSE tasks[j + 1]
             /\ task_id_counter' = task_id_counter
       /\ call'.op \in {"complete_task", "update_task_priority"} =>
             /\ Len(tasks') = Len(tasks)
             /\ task_id_counter' = task_id_counter
             /\ \A j \in 1 .. Len(tasks) :
                   /\ j # C20_Target => tasks'[j] = tasks[j]
                   /\ tasks'[j].id = tasks[j].id
                   /\ tasks'[j].description = tasks[j].description
                   /\ tasks'[j].created_at = tasks[j].created_at
                   /\ tasks'[j].due_date = tasks[j].due_date
                   /\ call'.op = "complete_task" => tasks'[j].priority = tasks[j].priority
                   /\ call'.op = "update_task_priority" =>
                         /\ tasks'[j].status = tasks[j].status
                         /\ tasks'[j].completed_at = tasks[j].completed_at]_vars

\* the second of three tasks was deleted
C20_Witness ==
    /\ call.op = "delete_task"
    /\ result.kind = "removed"
    /\ call.task_id = 2
    /\ Len(tasks) = 2
    /\ tasks[1].id = 1
    /\ tasks[2].id = 3

(***************************************************************************)
(* Tool calls in flight at the same time.  The tools are coroutines        *)
(* (async def) that the runtime runs on the one event loop of the session: *)
(* a coroutine that has been resumed runs until it awaits or returns, and  *)
(* only then is another one resumed.  add_task and delete_task are taken   *)
(* statement by statement.                                                 *)
(***************************************************************************)
\* the points of add_task and delete_task at which the coroutine awaits,
\* were the mutation and its write apart by one
AwaitPoints_before_increment == {"appended"}

\* the points of add_task and delete_task at which the coroutine awaits:
\* their bodies hold no await
AwaitPoints == {}

\* the event loop may resume the coroutine of caller c
MayRun(c) ==
    \A d \in Callers \ {c} : running[d].pc \in ({"idle", "invoked"} \cup AwaitPoints)

\* the runtime starts a tool call for an idle caller
CallAddTask ==
    /\ task_id_counter <= MaxId
    /\ \E c \in Callers :
          /\ running[c].pc = "idle"
          /\ \E d \in Descriptions, p \in PriorityInputs, due \in DueDateInputs, now \in Clock :
                running' = [running EXCEPT ![c] =
                              [ pc |-> "invoked",
                                call |-> [op |-> "add_task", task_description |-> d,
                                          priority |-> p, due_date |-> due, now |-> now] ]]
    /\ UNCHANGED <<tasks, task_id_counter, file, call, result, wrote, assigned,
                   everAssigned, failures>>

CallDeleteTask ==
    /\ \E c \in Callers :
          /\ running[c].pc = "idle"
          /\ \E id \in TaskIdInputs :
                running' = [running EXCEPT ![c] =
                              [ pc |-> "invoked",
                                call |-> [op |-> "delete_task", task_id |-> id] ]]
    /\ UNCHANGED <<tasks, task_id_counter, file, call, result, wrote, assigned,
                   everAssigned, failures>>

\* the coroutine of caller c returns res; its save_tasks, if it makes one,
\* is its last statement before that
Return(c, save, res, ids) ==
    /\ IF save
       THEN \E o \in PossibleOutcomes :
               \E w \in {save_tasks(tasks, task_id_counter, file, o)} :
                  /\ file' = w.file
                  /\ wrote' = o
                  /\ failures' = IF o = "ok" THEN failures ELSE failures + 1
                  /\ result' = IF w.raised THEN [kind |-> "raised"] ELSE res
       ELSE /\ file' = file
            /\ wrote' = "none"
            /\ failures' = failures
            /\ result' = res
    /\ call' = running[c].call
    /\ assigned' = assigned \o ids
    /\ everAssigned' = everAssigned \cup {ids[i] : i \in 1 .. Len(ids)}
    /\ running' = [running EXCEPT ![c] = [pc |-> "idle"]]
    /\ UNCHANGED <<tasks, task_id_counter>>

\* the next statement of an add_task in flight
ResumeAddTask ==
    \E c \in Callers :
       /\ running[c].pc # "idle"
       /\ running[c].call.op = "add_task"
       /\ MayRun(c)
       /\ LET me == running[c]
              a == me.call
              r == add_task(tasks, task_id_counter, a.task_description, a.priority,
                            a.due_date, a.now)
          IN  CASE me.pc = "invoked" ->
                     \* task = {"id": self.task_id_counter, ...}
                     /\ running' = [running EXCEPT ![c] =
                                      [ pc |-> "built", call |-> a,
                                        seen |-> [tasks |-> tasks, counter |-> task_id_counter],
                                        task |-> r.tasks[Len(r.tasks)],
                                        response |-> r.result ]]
                     /\ UNCHANGED <<tasks, task_id_counter, file, call, result, wrote,
                                    assigned, everAssigned, failures>>
                [] me.pc = "built" ->
                     \* self.tasks.append(task)
                     /\ tasks' = Append(tasks, me.task)
                     /\ running' = [running EXCEPT ![c].pc = "appended"]
                     /\ UNCHANGED <<task_id_counter, file, call, result, wrote,
                                    assigned, everAssigned, failures>>
                [] me.pc = "appended" ->
                     \* self.task_id_counter += 1
                     /\ task_id_counter' = task_id_counter + 1
                     /\ running' = [running EXCEPT ![c].pc = "incremented"]
                     /\ UNCHANGED <<tasks, file, call, result, wrote,
                                    assigned, everAssigned, failures>>
                [] me.pc = "incremented" ->
                     \* self.save_tasks(); return response
                     Return(c, TRUE, me.response, <<me.task.id>>)

\* the next statement of a delete_task in flight
ResumeDeleteTask ==
    \E c \in Callers :
       /\ running[c].pc # "idle"
       /\ running[c].call.op = "delete_task"
       /\ MayRun(c)
       /\ LET me == running[c]
              r == delete_task(tasks, task_id_counter, me.call.task_id)
          IN  CASE me.pc = "invoked" /\ FirstIndex(tasks, me.call.task_id) = 0 ->
                     \* the loop ends without a match
                     Return(c, FALSE, r.result, <<>>)
                [] me.pc = "invoked" /\ FirstIndex(tasks, me.call.task_id) # 0 ->
                     \* the loop is at the match: description = task["description"]
                     /\ running' = [running EXCEPT ![c] =
                                      [ pc |-> "found", call |-> me.call,
                                        seen |-> [tasks |-> tasks, counter |-> task_id_counter],
                                        i |-> FirstIndex(tasks, me.call.task_id),
                                        response |-> r.result ]]
                     /\ UNCHANGED <<tasks, task_id_counter, file, call, result, wrote,
                                    assigned, everAssigned, failures>>
                [] me.pc = "found" ->
                     \* self.tasks.pop(i)
                     /\ tasks' = SubSeq(tasks, 1, me.i - 1) \o SubSeq(tasks, me.i + 1, Len(tasks))
                     /\ running' = [running EXCEPT ![c].pc = "popped"]
                     /\ UNCHANGED <<task_id_counter, file, call, result, wrote,
                                    assigned, everAssigned, failures>>
                [] me.pc = "popped" ->
                     \* self.save_tasks(); return
                     Return(c, TRUE, me.response, <<>>)

NextConcurrent ==
    \/ CallAddTask
    \/ CallDeleteTask
    \/ ResumeAddTask
    \/ ResumeDeleteTask

SpecConcurrent == Init /\ [][NextConcurrent]_vars

(***************************************************************************)
(* C17: with several callers at the same time the operations are           *)
(* serialized: what two mutating operations in flight together do is what  *)
(* they do one after the other in some order.  Each operation acts on the  *)
(* store as it found it and returns what it returns when run alone, no     *)
(* operation starts while another is part-way through its mutation, two    *)
(* add_task calls get different ids, both tasks are in the list, and a     *)
(* write that succeeds puts the whole list into the file.                  *)
(***************************************************************************)
\* the coroutine of caller c is part-way through its operation
C17_Midway(c) == running[c].pc \notin {"idle", "invoked"}

\* what caller c's operation found when it started
C17_Seen(c) ==
    IF C17_Midway(c) THEN running[c].seen
    ELSE [tasks |-> tasks, counter |-> task_id_counter]

C17_Serialized ==
    /\ [](\A i, j \in 1 .. Len(tasks) : i # j => tasks[i].id # tasks[j].id)
    /\ [][\A c \in Callers :
            /\ (running[c].pc = "invoked" /\ running'[c].pc # "invoked") =>
                  \A d \in Callers \ {c} : ~C17_Midway(d)
            /\ (running[c].pc # "idle" /\ running'[c].pc = "idle") =>
                  LET r == Apply(running[c].call, C17_Seen(c).tasks, C17_Seen(c).counter)
                  IN  /\ tasks' = r.tasks
                      /\ task_id_counter' = r.counter
                      /\ result' = r.result
                      /\ wrote' = "ok" =>
                            file' = JsonObject(json_dump(tasks', task_id_counter'))]_vars

\* two add_task calls are in flight: one has appended its task and has not
\* yet incremented the counter, the other has not been resumed yet
C17_Witness ==
    \E c, d \in Callers :
       /\ running[c].pc = "appended"
       /\ running[c].call.op = "add_task"
       /\ running[d].pc = "invoked"
       /\ running[d].call.op = "add_task"
       /\ Len(tasks) = task_id_counter

====
